---- MODULE Spec2Model ----
(***************************************************************************)
(* World Monitor: the dashboard client (dashboard.js, map.js), the desktop *)
(* launcher (launch.sh) and the server-side cache the client polls.        *)
(* The client and the launcher are translated from the sources; the cache  *)
(* and the /api/news filter live in server files that are not part of the  *)
(* excerpt and are modelled from the specification (marked below).         *)
(***************************************************************************)
EXTENDS Integers, Sequences, FiniteSets, TLC

(***************************************************************************)
(* Generic helpers (JavaScript array operations).                          *)
(***************************************************************************)
Min(a, b) == IF a < b THEN a ELSE b

Range(s) == {s[i] : i \in 1..Len(s)}

\* Array.prototype.slice(from, to) with 0-based, end-exclusive indices.
Slice(s, from, to) == SubSeq(s, from + 1, Min(to, Len(s)))

\* Array.prototype.map
MapSeq(F(_), s) == [i \in 1..Len(s) |-> F(s[i])]

\* s with its i-th element removed
RemoveAt(s, i) == SubSeq(s, 1, i - 1) \o SubSeq(s, i + 1, Len(s))


(***************************************************************************)
(* Bounds of the model.                                                    *)
(***************************************************************************)
\* loadAllData invocations whose Promise.all has not settled yet
MaxCycles == 1
\* /api/news requests in flight that were issued by the alerts button or
\* the source filter (outside a refresh cycle)
MaxNewsInFlight == 2
\* loadLayerData requests in flight per layer
MaxLayerInFlight == 1
\* records in one /api/disasters or /api/conflicts response
MaxEvents == 1

(***************************************************************************)
(* Program constants.                                                      *)
(***************************************************************************)
REFRESH_INTERVAL == 180000
NewsLimit == 200
NewsPanelMax == 100
TickerAlertMax == 10
TickerRegularMax == 15
GdeltPanelMax == 50

(***************************************************************************)
(* Text.  A string the program transforms is a sequence of one-character   *)
(* strings; its encoded forms are sequences of tokens, where an escape     *)
(* (%20, &amp;) is one token.                                              *)
(***************************************************************************)
EmptyStr == <<>>
SrcAP == <<"A", "P">>
SrcBC == <<"B", " ", "&", "C">>
\* UTF-16 code units of the characters used (String comparison in sort()).
CharCode(c) ==
    CASE c = " " -> 32
      [] c = "\"" -> 34
      [] c = "&" -> 38
      [] c = "<" -> 60
      [] c = ">" -> 62
      [] c = "A" -> 65
      [] c = "B" -> 66
      [] c = "C" -> 67
      [] c = "P" -> 80
      [] OTHER -> 0

RECURSIVE StrLess(_, _)
StrLess(a, b) ==
    IF b = <<>> THEN FALSE
    ELSE IF a = <<>> THEN TRUE
    ELSE IF CharCode(Head(a)) # CharCode(Head(b))
         THEN CharCode(Head(a)) < CharCode(Head(b))
    ELSE StrLess(Tail(a), Tail(b))

\* [...set].sort(): the elements of S in ascending string order
RECURSIVE SortStrings(_)
SortStrings(S) ==
    IF S = {} THEN <<>>
    ELSE LET m == CHOOSE x \in S : \A y \in S \ {x} : StrLess(x, y)
         IN <<m>> \o SortStrings(S \ {m})

\* encodeURIComponent: unreserved characters stay, the others become %XX
EncodeChar(c) ==
    CASE c = " " -> "%20"
      [] c = "&" -> "%26"
      [] c = "\"" -> "%22"
      [] c = "<" -> "%3C"
      [] c = ">" -> "%3E"
      [] OTHER -> c

encodeURIComponent(s) == MapSeq(EncodeChar, s)

\* escapeHtml: div.textContent = text; return div.innerHTML
\* (the serializer escapes &, < and >, and leaves quotes alone)
EscapeChar(c) ==
    CASE c = "&" -> "&amp;"
      [] c = "<" -> "&lt;"
      [] c = ">" -> "&gt;"
      [] OTHER -> c

escapeHtml(s) == MapSeq(EscapeChar, s)

\* What the HTML parser reads back from value="..." : the text up to the
\* first double quote, with the character references decoded.
UnescapeChar(t) ==
    CASE t = "&amp;" -> "&"
      [] t = "&lt;" -> "<"
      [] t = "&gt;" -> ">"
      [] OTHER -> t

RECURSIVE UpToQuote(_)
UpToQuote(ts) ==
    IF ts = <<>> \/ Head(ts) = "\"" THEN <<>>
    ELSE <<Head(ts)>> \o UpToQuote(Tail(ts))

AttrValue(ts) == MapSeq(UnescapeChar, UpToQuote(ts))

(***************************************************************************)
(* HTTP.  A URL is a sequence of tokens; a response is what the promise    *)
(* chain fetch(url).then(r => r.json()) delivers: the parsed array, or a   *)
(* rejection (network error, or a body that is not JSON).                  *)
(***************************************************************************)
UrlNewsBase == "/api/news?limit=200"
UrlEarthquakes == <<"/api/earthquakes">>
UrlConflictZones == <<"/api/layers/conflict-zones">>
UrlHotspots == <<"/api/layers/hotspots">>
UrlGdelt == <<"/api/gdelt">>
UrlConflicts == <<"/api/conflicts">>
UrlDisasters == <<"/api/disasters">>
UrlBases == <<"/api/layers/military-bases">>
UrlNuclear == <<"/api/layers/nuclear">>
UrlWaterways == <<"/api/layers/waterways">>
UrlCables == <<"/api/layers/cables">>

\* the data and layer endpoints of the HTTP API (README, API Endpoints)
ApiDataPaths ==
    {UrlEarthquakes, UrlGdelt, UrlConflicts, UrlDisasters, UrlConflictZones,
     UrlHotspots, UrlBases, UrlNuclear, UrlWaterways, UrlCables}

Ok(data) == [ok |-> TRUE, data |-> data]
Fail == [ok |-> FALSE, data |-> <<>>]

(***************************************************************************)
(* dashboard.js: loadNews builds its request from the source filter and    *)
(* the alertsOnly flag.                                                    *)
(***************************************************************************)
\* a variant that appends the selection as it is, unencoded
NewsUrlPlain(source, alerts) ==
    <<UrlNewsBase>>
    \o (IF source # EmptyStr THEN <<"&source=">> \o source ELSE <<>>)
    \o (IF alerts THEN <<"&alerts=true">> ELSE <<>>)

\* loadNews: url
NewsUrl(source, alerts) ==
    <<UrlNewsBase>>
    \o (IF source # EmptyStr THEN <<"&source=">> \o encodeURIComponent(source) ELSE <<>>)
    \o (IF alerts THEN <<"&alerts=true">> ELSE <<>>)

(***************************************************************************)
(* The query string as the server reads it: parameters are separated by &, *)
(* values are percent-decoded.                                             *)
(***************************************************************************)
DecodeToken(t) ==
    CASE t = "%20" -> " "
      [] t = "%26" -> "&"
      [] t = "%22" -> "\""
      [] t = "%3C" -> "<"
      [] t = "%3E" -> ">"
      [] OTHER -> t

decodeURIComponent(ts) == MapSeq(DecodeToken, ts)

ParamStart(t) == t \in {"&source=", "&alerts=true", "&"}

\* the first position from i on that starts a parameter, or Len(url) + 1
RECURSIVE ValueEnd(_, _)
ValueEnd(url, i) ==
    IF i > Len(url) \/ ParamStart(url[i]) THEN i ELSE ValueEnd(url, i + 1)

ParseNewsUrl(url) ==
    LET hasSrc == Len(url) >= 2 /\ url[2] = "&source="
        e == IF hasSrc THEN ValueEnd(url, 3) ELSE 2
        srcTokens == IF hasSrc THEN SubSeq(url, 3, e - 1) ELSE <<>>
        hasAlerts == e <= Len(url) /\ url[e] = "&alerts=true"
        rest == IF hasAlerts THEN e + 1 ELSE e
    IN [wellFormed |-> /\ Len(url) >= 1
                       /\ url[1] = UrlNewsBase
                       /\ rest = Len(url) + 1
                       /\ (hasSrc => srcTokens # <<>>),
        source |-> decodeURIComponent(srcTokens),
        alerts |-> hasAlerts]

(***************************************************************************)
(* News items.  The aggregated list the server holds is sorted by          *)
(* published timestamp, newest first; /api/news filters it by source name  *)
(* (exact match) and by is_alert, and truncates to the limit.              *)
(***************************************************************************)
ItemA == [source |-> SrcAP, title |-> "a", published |-> 3, is_alert |-> TRUE]
ItemB == [source |-> SrcBC, title |-> "b", published |-> 2, is_alert |-> FALSE]
ItemC == [source |-> SrcAP, title |-> "c", published |-> 1, is_alert |-> FALSE]
ItemOld == [source |-> SrcAP, title |-> "z", published |-> 0, is_alert |-> TRUE]

\* more items than the news panel shows: the only alert is the oldest item
LongFeed == [i \in 1..(NewsPanelMax + 1) |-> IF i <= NewsPanelMax THEN ItemC ELSE ItemOld]

IsAlert(d) == d.is_alert

SortedDesc(items) ==
    \A i \in 1..Len(items) : \A j \in 1..Len(items) :
        i < j => items[i].published >= items[j].published

Feeds == {f \in {<<ItemA, ItemB, ItemC>>, <<ItemB>>, LongFeed} : SortedDesc(f)}

NewsApi(feed, url) ==
    LET q == ParseNewsUrl(url)
        BySource(d) == q.source = EmptyStr \/ d.source = q.source
        ByAlert(d) == ~q.alerts \/ d.is_alert
    IN Slice(SelectSeq(SelectSeq(feed, BySource), ByAlert), 0, NewsLimit)

NewsResponses(feeds, url) == {Fail} \cup {Ok(NewsApi(f, url)) : f \in feeds}

(***************************************************************************)
(* dashboard.js: rendering.  A panel holds either a message or a list of   *)
(* rendered items.                                                         *)
(***************************************************************************)
Panel(msg, items) == [msg |-> msg, items |-> items]

PanelInitial == Panel("Loading...", <<>>)

NewsItemHtml(item) ==
    [cls |-> IF item.is_alert THEN "news-item alert" ELSE "news-item ",
     source |-> escapeHtml(item.source),
     title |-> item.title,
     time |-> item.published]

AlertItemHtml(item) ==
    [cls |-> "news-item alert",
     source |-> escapeHtml(item.source),
     title |-> item.title,
     time |-> item.published]

TickerItemHtml(item) ==
    [cls |-> IF item.is_alert THEN "ticker-alert" ELSE "", title |-> item.title]

\* a variant of renderNews that shows the items oldest first
Reverse(s) == [i \in 1..Len(s) |-> s[Len(s) + 1 - i]]

renderNewsReversed(items) ==
    IF Len(items) = 0 THEN Panel("No news available", <<>>)
    ELSE Panel("", MapSeq(NewsItemHtml, Slice(Reverse(items), 0, NewsPanelMax)))

\* renderNews: the first 100 items, in the order received
renderNews(items) ==
    IF Len(items) = 0 THEN Panel("No news available", <<>>)
    ELSE Panel("", MapSeq(NewsItemHtml, Slice(items, 0, NewsPanelMax)))

renderAlerts(items) ==
    IF Len(items) = 0 THEN Panel("No active alerts", <<>>)
    ELSE Panel("", MapSeq(AlertItemHtml, items))

renderTicker(items) ==
    LET alertItems == Slice(SelectSeq(items, IsAlert), 0, TickerAlertMax)
        regularItems == Slice(items, 0, TickerRegularMax)
    IN MapSeq(TickerItemHtml, alertItems \o regularItems)

\* a variant that filters only the items the news panel shows
AlertsOfShown(data) == SelectSeq(Slice(data, 0, NewsPanelMax), IsAlert)

\* the items loadNews hands to renderAlerts
AlertsOf(data) == SelectSeq(data, IsAlert)

\* updateSourceFilter: the select's options and value after innerHTML is
\* replaced.  The option marked selected is the one whose source equals the
\* previous value; without one the select falls back to its first option.
SourcesOf(items) == SortStrings({items[i].source : i \in 1..Len(items)})

updateSourceFilter(items, current) ==
    LET sources == SourcesOf(items)
        OptionValue(src) == AttrValue(escapeHtml(src))
        selected == {i \in 1..Len(sources) : sources[i] = current}
    IN [options |-> <<EmptyStr>> \o MapSeq(OptionValue, sources),
        value |-> IF selected = {} THEN EmptyStr
                  ELSE OptionValue(sources[CHOOSE i \in selected : \A j \in selected : j <= i])]

GdeltItemHtml(item) == [source |-> item.source, title |-> item.title]

renderGdelt(items) ==
    IF Len(items) = 0 THEN Panel("No GDELT data available", <<>>)
    ELSE Panel("", MapSeq(GdeltItemHtml, Slice(items, 0, GdeltPanelMax)))

\* the .catch handlers of loadNews and loadGdelt
NewsCatchPanel == Panel("Failed to load news", <<>>)

\* a variant whose .catch leaves the panel as it is
GdeltCatchKeep(panel) == panel

\* loadGdelt: .catch
GdeltCatch(panel) == Panel("Failed to load GDELT data", <<>>)

(***************************************************************************)
(* map.js: layer groups.  A coordinate is the JSON value of the field:     *)
(* a number (written as text), null, or undefined when the key is absent.  *)
(***************************************************************************)
LayerNames ==
    {"earthquakes", "conflicts", "hotspots", "bases", "nuclear", "waterways",
     "cables", "disasters", "conflict-events"}

DefaultLayers == {"earthquakes", "conflicts", "hotspots"}

Coords == {"undefined", "null", "0", "1"}

\* !x for a coordinate
Falsy(c) == c \in {"undefined", "null", "0"}

\* L.latLng: Number(null) is 0; a NaN coordinate makes L.marker throw
IsNaN(c) == c = "undefined"
ToNumber(c) == IF c = "null" THEN "0" ELSE c

Marker(rec) == [kind |-> "marker", lat |-> ToNumber(rec.lat), lng |-> ToNumber(rec.lng), of |-> rec]
Circle(rec) == [kind |-> "circle", lat |-> ToNumber(rec.lat), lng |-> ToNumber(rec.lng), of |-> rec]
Cluster(markers) == [kind |-> "cluster", markers |-> markers]

\* data.forEach(x => group.addLayer(L.marker(...))) for the layers that
\* place every record
MarkAll(data) == MapSeq(Marker, data)

updateEarthquakes(data) == MarkAll(data)
updateConflictZones(data) == MapSeq(Circle, data)
updateHotspots(data) == MarkAll(data)
updateBases(data) == MarkAll(data)
updateNuclear(data) == MarkAll(data)
updateWaterways(data) == MarkAll(data)

\* updateCables: a polyline for every cable with at least two points
HasRoute(cable) == Len(cable.points) >= 2
Polyline(cable) == [kind |-> "polyline", points |-> cable.points, of |-> cable]
updateCables(data) == MapSeq(Polyline, SelectSeq(data, HasRoute))

\* updateDisasters: the group is cleared, then each record is placed unless
\* both coordinates are exactly 0; L.marker throws on an undefined
\* coordinate, which ends the forEach with the markers placed so far.
DisasterSkipped(d) == d.lat = "0" /\ d.lng = "0"

RECURSIVE PlaceDisasters(_, _)
PlaceDisasters(data, placed) ==
    IF data = <<>> THEN placed
    ELSE LET d == Head(data)
         IN IF DisasterSkipped(d) THEN PlaceDisasters(Tail(data), placed)
            ELSE IF IsNaN(d.lat) \/ IsNaN(d.lng) THEN placed
            ELSE PlaceDisasters(Tail(data), Append(placed, Marker(d)))

updateDisasters(data) == PlaceDisasters(data, <<>>)

\* updateConflictEvents: the group is cleared and receives one marker
\* cluster holding a marker for every record with truthy lat and lng.
ConflictEventSkipped(ev) == Falsy(ev.lat) \/ Falsy(ev.lng)

ConflictEventKept(ev) == ~ConflictEventSkipped(ev)

updateConflictEvents(data) == <<Cluster(MapSeq(Marker, SelectSeq(data, ConflictEventKept)))>>

\* loadLayerData: the URL of a layer, <<>> for a layer it does not fetch
LayerUrl(name) ==
    CASE name = "bases" -> UrlBases
      [] name = "nuclear" -> UrlNuclear
      [] name = "waterways" -> UrlWaterways
      [] name = "cables" -> UrlCables
      [] name = "disasters" -> UrlDisasters
      [] name = "conflict-events" -> UrlConflicts
      [] OTHER -> <<>>

LayerUpdate(name, data) ==
    CASE name = "bases" -> updateBases(data)
      [] name = "nuclear" -> updateNuclear(data)
      [] name = "waterways" -> updateWaterways(data)
      [] name = "cables" -> updateCables(data)
      [] name = "disasters" -> updateDisasters(data)
      [] name = "conflict-events" -> updateConflictEvents(data)

(***************************************************************************)
(* State of the dashboard page.                                            *)
(***************************************************************************)
VARIABLES
    alertsOnly,       \* dashboard.js: let alertsOnly
    btnAlertsActive,  \* #btn-alerts has class "active"
    sourceSel,        \* #news-source-filter: value
    sourceOptions,    \* #news-source-filter: option values, in order
    statusText,       \* #status-text
    dotConnected,     \* .dot has class "connected"
    refreshTimer,     \* interval of the setInterval(loadAllData, ...) timer
    newsList,         \* #news-list
    alertsList,       \* #alerts-list
    ticker,           \* #ticker-content
    statNews,         \* #stat-news
    gdeltList,        \* #gdelt-list
    statEarthquakes,  \* #stat-earthquakes
    statConflicts,    \* #stat-conflicts
    statDisasters,    \* #stat-disasters
    layerGroups,      \* map.js: layerGroups[name].getLayers()
    onMap,            \* names of the layer groups added to the map
    checked,          \* names of the layers whose checkbox is checked
    cycles,           \* loadAllData calls whose Promise.all is unsettled
    newsInFlight,     \* /api/news requests without a response, oldest first
    layerInFlight,    \* loadLayerData requests without a response, per layer
    delivered,        \* per endpoint: the latest array a response delivered
    lastFailed        \* the panels with a failure message whose latest
                      \* response was a rejection

newsVars == <<newsList, alertsList, ticker, statNews, sourceSel, sourceOptions>>
flagVars == <<alertsOnly, btnAlertsActive>>
statusVars == <<statusText, dotConnected>>
statVars == <<statEarthquakes, statConflicts, statDisasters>>
mapVars == <<layerGroups, onMap, checked>>
netVars == <<cycles, newsInFlight, layerInFlight>>
dashVars ==
    <<newsVars, flagVars, statusVars, refreshTimer, gdeltList, statVars,
      mapVars, netVars, delivered, lastFailed>>

\* the text of a counter no handler has written yet
NoStat == 0 - 1

(***************************************************************************)
(* dashboard.js: loadAllData.                                              *)
(***************************************************************************)
Endpoints ==
    {"news", "earthquakes", "conflict-zones", "hotspots", "gdelt",
     "conflicts", "disasters"}

\* a variant without loadStats
LoadAllDataFetchesNoStats ==
    {"news", "earthquakes", "conflict-zones", "hotspots", "gdelt"}

\* the fetches one loadAllData call starts: loadNews, loadEarthquakes,
\* loadConflictZones, loadHotspots, loadGdelt, and the two of loadStats
LoadAllDataFetches ==
    {"news", "earthquakes", "conflict-zones", "hotspots", "gdelt",
     "conflicts", "disasters"}

FetchUrl(e, source, alerts) ==
    CASE e = "news" -> NewsUrl(source, alerts)
      [] e = "earthquakes" -> UrlEarthquakes
      [] e = "conflict-zones" -> UrlConflictZones
      [] e = "hotspots" -> UrlHotspots
      [] e = "gdelt" -> UrlGdelt
      [] e = "conflicts" -> UrlConflicts
      [] e = "disasters" -> UrlDisasters

NewCycle(source, alerts) ==
    [pending |-> LoadAllDataFetches,
     requested |-> {FetchUrl(e, source, alerts) : e \in LoadAllDataFetches},
     rejected |-> FALSE]

NewsRequest(source, alerts, inCycle) ==
    [url |-> NewsUrl(source, alerts), inCycle |-> inCycle]

\* a variant whose loaders pass a failed fetch on to Promise.all
LoaderResultNoCatch(resp) == IF resp.ok THEN "fulfilled" ELSE "rejected"

\* how the promise a loader returns settles: every loader ends in .catch
LoaderResult(resp) == "fulfilled"

\* Promise.all(...).then(Live).catch(Error) of cycle i, when the fetch of
\* endpoint e in it settles with `result`
CycleStep(i, e, result) ==
    LET c == cycles[i]
        p == c.pending \ {e}
        rejectedNow == result = "rejected" /\ ~c.rejected
        rej == c.rejected \/ result = "rejected"
        live == p = {} /\ ~rej
    IN /\ statusText' = IF rejectedNow THEN "Error"
                        ELSE IF live THEN "Live" ELSE statusText
       /\ dotConnected' = (dotConnected \/ live)
       /\ cycles' = IF p = {} THEN RemoveAt(cycles, i)
                    ELSE [cycles EXCEPT ![i] = [c EXCEPT !.pending = p, !.rejected = rej]]

\* the network log: what endpoint e has delivered
FailurePanels == {"news", "gdelt"}

Receive(e, resp) ==
    /\ delivered' = IF resp.ok
                    THEN [delivered EXCEPT ![e] = [any |-> TRUE, data |-> resp.data]]
                    ELSE delivered
    /\ lastFailed' = IF e \notin FailurePanels THEN lastFailed
                     ELSE IF resp.ok THEN lastFailed \ {e}
                     ELSE lastFailed \cup {e}

LoadAllData(maxCycles) ==
    /\ Len(cycles) < maxCycles
    /\ statusText' = "Refreshing..."
    /\ cycles' = Append(cycles, NewCycle(sourceSel, alertsOnly))
    /\ newsInFlight' = Append(newsInFlight, NewsRequest(sourceSel, alertsOnly, TRUE))
    /\ UNCHANGED <<newsVars, flagVars, dotConnected, refreshTimer, gdeltList,
                   statVars, mapVars, layerInFlight, delivered, lastFailed>>

\* the interval timer fires
TimerTick == LoadAllData(MaxCycles)

\* click on #btn-refresh
ClickRefresh == LoadAllData(MaxCycles)

(***************************************************************************)
(* dashboard.js: the loaders' response handlers.                           *)
(***************************************************************************)
\* the cycle the k-th request of newsInFlight belongs to: requests and
\* cycles are both kept in the order they were started
CycleOfNews(k) ==
    LET n == Cardinality({j \in 1..k : newsInFlight[j].inCycle})
        withNews == {i \in 1..Len(cycles) : "news" \in cycles[i].pending}
    IN CHOOSE i \in withNews : Cardinality({j \in withNews : j <= i}) = n

NewsSettled(k, resp) ==
    /\ k \in 1..Len(newsInFlight)
    /\ IF resp.ok
       THEN LET sel == updateSourceFilter(resp.data, sourceSel)
            IN /\ newsList' = renderNews(resp.data)
               /\ alertsList' = renderAlerts(AlertsOf(resp.data))
               /\ ticker' = renderTicker(resp.data)
               /\ sourceOptions' = sel.options
               /\ sourceSel' = sel.value
               /\ statNews' = Len(resp.data)
       ELSE /\ newsList' = NewsCatchPanel
            /\ UNCHANGED <<alertsList, ticker, sourceOptions, sourceSel, statNews>>
    /\ newsInFlight' = RemoveAt(newsInFlight, k)
    /\ IF newsInFlight[k].inCycle
       THEN CycleStep(CycleOfNews(k), "news", LoaderResult(resp))
       ELSE UNCHANGED <<statusVars, cycles>>
    /\ Receive("news", resp)
    /\ UNCHANGED <<flagVars, refreshTimer, gdeltList, statVars, mapVars, layerInFlight>>

EarthquakesSettled(i, resp) ==
    /\ i \in 1..Len(cycles) /\ "earthquakes" \in cycles[i].pending
    /\ IF resp.ok
       THEN /\ layerGroups' = [layerGroups EXCEPT !["earthquakes"] = updateEarthquakes(resp.data)]
            /\ statEarthquakes' = Len(resp.data)
       ELSE UNCHANGED <<layerGroups, statEarthquakes>>
    /\ CycleStep(i, "earthquakes", LoaderResult(resp))
    /\ Receive("earthquakes", resp)
    /\ UNCHANGED <<newsVars, flagVars, refreshTimer, gdeltList, statConflicts,
                   statDisasters, onMap, checked, newsInFlight, layerInFlight>>

ConflictZonesSettled(i, resp) ==
    /\ i \in 1..Len(cycles) /\ "conflict-zones" \in cycles[i].pending
    /\ IF resp.ok
       THEN layerGroups' = [layerGroups EXCEPT !["conflicts"] = updateConflictZones(resp.data)]
       ELSE UNCHANGED layerGroups
    /\ CycleStep(i, "conflict-zones", LoaderResult(resp))
    /\ Receive("conflict-zones", resp)
    /\ UNCHANGED <<newsVars, flagVars, refreshTimer, gdeltList, statVars,
                   onMap, checked, newsInFlight, layerInFlight>>

HotspotsSettled(i, resp) ==
    /\ i \in 1..Len(cycles) /\ "hotspots" \in cycles[i].pending
    /\ IF resp.ok
       THEN layerGroups' = [layerGroups EXCEPT !["hotspots"] = updateHotspots(resp.data)]
       ELSE UNCHANGED layerGroups
    /\ CycleStep(i, "hotspots", LoaderResult(resp))
    /\ Receive("hotspots", resp)
    /\ UNCHANGED <<newsVars, flagVars, refreshTimer, gdeltList, statVars,
                   onMap, checked, newsInFlight, layerInFlight>>

GdeltSettled(i, resp) ==
    /\ i \in 1..Len(cycles) /\ "gdelt" \in cycles[i].pending
    /\ gdeltList' = IF resp.ok THEN renderGdelt(resp.data) ELSE GdeltCatch(gdeltList)
    /\ CycleStep(i, "gdelt", LoaderResult(resp))
    /\ Receive("gdelt", resp)
    /\ UNCHANGED <<newsVars, flagVars, refreshTimer, statVars, mapVars,
                   newsInFlight, layerInFlight>>

\* loadStats: the two fetches settle independently; each has its own catch
ConflictsStatSettled(i, resp) ==
    /\ i \in 1..Len(cycles) /\ "conflicts" \in cycles[i].pending
    /\ statConflicts' = IF resp.ok THEN Len(resp.data) ELSE statConflicts
    /\ CycleStep(i, "conflicts", LoaderResult(resp))
    /\ Receive("conflicts", resp)
    /\ UNCHANGED <<newsVars, flagVars, refreshTimer, gdeltList, statEarthquakes,
                   statDisasters, mapVars, newsInFlight, layerInFlight>>

DisastersStatSettled(i, resp) ==
    /\ i \in 1..Len(cycles) /\ "disasters" \in cycles[i].pending
    /\ statDisasters' = IF resp.ok THEN Len(resp.data) ELSE statDisasters
    /\ CycleStep(i, "disasters", LoaderResult(resp))
    /\ Receive("disasters", resp)
    /\ UNCHANGED <<newsVars, flagVars, refreshTimer, gdeltList, statEarthquakes,
                   statConflicts, mapVars, newsInFlight, layerInFlight>>

(***************************************************************************)
(* dashboard.js: the alerts button and the source filter.                  *)
(***************************************************************************)
Standalone == {k \in 1..Len(newsInFlight) : ~newsInFlight[k].inCycle}

ClickAlerts ==
    /\ Cardinality(Standalone) < MaxNewsInFlight
    /\ alertsOnly' = ~alertsOnly
    /\ btnAlertsActive' = ~btnAlertsActive
    /\ newsInFlight' = Append(newsInFlight, NewsRequest(sourceSel, ~alertsOnly, FALSE))
    /\ UNCHANGED <<newsVars, statusVars, refreshTimer, gdeltList, statVars,
                   mapVars, cycles, layerInFlight, delivered, lastFailed>>

\* the user picks another option of the source filter
ChangeSource(v) ==
    /\ Cardinality(Standalone) < MaxNewsInFlight
    /\ v \in Range(sourceOptions) /\ v # sourceSel
    /\ sourceSel' = v
    /\ newsInFlight' = Append(newsInFlight, NewsRequest(v, alertsOnly, FALSE))
    /\ UNCHANGED <<newsList, alertsList, ticker, statNews, sourceOptions, flagVars,
                   statusVars, refreshTimer, gdeltList, statVars, mapVars,
                   cycles, layerInFlight, delivered, lastFailed>>

(***************************************************************************)
(* map.js: the layer checkboxes and loadLayerData.                         *)
(***************************************************************************)
\* the endpoint a layer's data comes from
LayerEndpoint(name) == IF name = "conflict-events" THEN "conflicts" ELSE name

\* a variant that calls loadLayerData on every check, empty group or not
ToggleLayerAlwaysLoads(name) ==
    /\ name \in LayerNames
    /\ layerInFlight[name] < MaxLayerInFlight
    /\ IF name \in checked
       THEN /\ checked' = checked \ {name}
            /\ onMap' = onMap \ {name}
            /\ UNCHANGED layerInFlight
       ELSE /\ checked' = checked \cup {name}
            /\ onMap' = onMap \cup {name}
            /\ layerInFlight' =
                 IF LayerUrl(name) # <<>>
                 THEN [layerInFlight EXCEPT ![name] = @ + 1]
                 ELSE layerInFlight
    /\ UNCHANGED <<newsVars, flagVars, statusVars, refreshTimer, gdeltList,
                   statVars, layerGroups, cycles, newsInFlight, delivered, lastFailed>>

\* change event of a layer checkbox (the browser has flipped cb.checked)
ToggleLayer(name) ==
    /\ name \in LayerNames
    /\ layerInFlight[name] < MaxLayerInFlight
    /\ IF name \in checked
       THEN /\ checked' = checked \ {name}
            /\ onMap' = onMap \ {name}
            /\ UNCHANGED layerInFlight
       ELSE /\ checked' = checked \cup {name}
            /\ onMap' = onMap \cup {name}
            /\ layerInFlight' =
                 IF Len(layerGroups[name]) = 0 /\ LayerUrl(name) # <<>>
                 THEN [layerInFlight EXCEPT ![name] = @ + 1]
                 ELSE layerInFlight
    /\ UNCHANGED <<newsVars, flagVars, statusVars, refreshTimer, gdeltList,
                   statVars, layerGroups, cycles, newsInFlight, delivered, lastFailed>>

\* the response of a loadLayerData request; a rejection is not handled
LayerDataSettled(name, resp) ==
    /\ name \in LayerNames
    /\ layerInFlight[name] > 0
    /\ layerInFlight' = [layerInFlight EXCEPT ![name] = @ - 1]
    /\ layerGroups' = IF resp.ok
                      THEN [layerGroups EXCEPT ![name] = LayerUpdate(name, resp.data)]
                      ELSE layerGroups
    /\ Receive(LayerEndpoint(name), resp)
    /\ UNCHANGED <<newsVars, flagVars, statusVars, refreshTimer, gdeltList,
                   statVars, onMap, checked, cycles, newsInFlight>>

(***************************************************************************)
(* The page after Dashboard.init(): WorldMap.init() has created the layer  *)
(* groups, the handlers are registered, the first loadAllData() has issued *)
(* its requests and the refresh timer is set.                              *)
(***************************************************************************)
ReceivedKeys == Endpoints \cup {"bases", "nuclear", "waterways", "cables"}

DashInit ==
    /\ alertsOnly = FALSE
    /\ btnAlertsActive = FALSE
    /\ sourceSel = EmptyStr
    /\ sourceOptions = <<EmptyStr>>
    /\ statusText = "Refreshing..."
    /\ dotConnected = FALSE
    /\ refreshTimer = REFRESH_INTERVAL
    /\ newsList = PanelInitial
    /\ alertsList = PanelInitial
    /\ ticker = <<>>
    /\ statNews = NoStat
    /\ gdeltList = PanelInitial
    /\ statEarthquakes = NoStat
    /\ statConflicts = NoStat
    /\ statDisasters = NoStat
    /\ layerGroups = [n \in LayerNames |-> <<>>]
    /\ onMap = DefaultLayers
    /\ checked = DefaultLayers
    /\ cycles = <<NewCycle(EmptyStr, FALSE)>>
    /\ newsInFlight = <<NewsRequest(EmptyStr, FALSE, TRUE)>>
    /\ layerInFlight = [n \in LayerNames |-> 0]
    /\ delivered = [e \in ReceivedKeys |-> [any |-> FALSE, data |-> <<>>]]
    /\ lastFailed = {}

(***************************************************************************)
(* What the server answers.                                                *)
(***************************************************************************)
PlaceRec == [lat |-> "1", lng |-> "1"]
GdeltItem == [source |-> "gdelt", title |-> "g"]

EventRecords == [lat : Coords, lng : Coords]
EventLists == UNION {[1..n -> EventRecords] : n \in 0..MaxEvents}

\* an endpoint that either fails or delivers the one list it holds
OneOrFail(data) == {Fail, Ok(data)}

EarthquakeResponses == OneOrFail(<<PlaceRec>>)
ZoneResponses == OneOrFail(<<PlaceRec>>)
HotspotResponses == OneOrFail(<<PlaceRec>>)
GdeltResponses == OneOrFail(<<GdeltItem>>)
StatResponses == OneOrFail(<<PlaceRec>>)
CycleFeeds == {<<ItemA, ItemB, ItemC>>}
EventResponses == {Fail} \cup {Ok(d) : d \in EventLists}

(***************************************************************************)
(* launch.sh: the desktop launcher.  Every `command -v`, the flask import, *)
(* pip, lsof and curl are answers of the machine the script runs on.       *)
(***************************************************************************)
VARIABLES
    pc,              \* the launcher's position in the script
    python,          \* $PYTHON
    notified,        \* notify-send has shown an error
    killedExisting,  \* kill "$existing_pid" was run
    serverStarted,   \* "$PYTHON" app.py & was run ($SERVER_PID is set)
    polls,           \* status requests made by the wait loop
    statusAnswered,  \* a curl of /api/status succeeded
    browser,         \* the command that opened the URL, "" for none
    exitCode         \* the script's exit status, NoExit while it runs

launchVars ==
    <<pc, python, notified, killedExisting, serverStarted, polls,
      statusAnswered, browser, exitCode>>

MaxPolls == 20
NoExit == 0 - 1

PythonCommands == <<"python3", "python">>

BrowserCommands ==
    <<"xdg-open", "open", "sensible-browser", "firefox", "chromium-browser",
      "google-chrome">>

LaunchInit ==
    /\ pc = "check-python"
    /\ python = ""
    /\ notified = FALSE
    /\ killedExisting = FALSE
    /\ serverStarted = FALSE
    /\ polls = 0
    /\ statusAnswered = FALSE
    /\ browser = ""
    /\ exitCode = NoExit

\* for cmd in python3 python: the first command found, "" when none is
FirstFound(cmds, found) ==
    IF \E i \in 1..Len(cmds) : cmds[i] \in found
    THEN cmds[CHOOSE i \in 1..Len(cmds) :
                /\ cmds[i] \in found
                /\ \A j \in 1..(i - 1) : cmds[j] \notin found]
    ELSE ""

\* Check Python
CheckPython(found) ==
    /\ pc = "check-python"
    /\ python' = FirstFound(PythonCommands, found)
    /\ pc' = IF python' = "" THEN "no-python" ELSE "check-deps"
    /\ UNCHANGED <<notified, killedExisting, serverStarted, polls,
                   statusAnswered, browser, exitCode>>

\* a variant that goes on to the dependency check without an interpreter
NoPythonGoesOn(hasNotify) ==
    /\ pc = "no-python"
    /\ notified' = hasNotify
    /\ pc' = "check-deps"
    /\ UNCHANGED <<python, killedExisting, serverStarted, polls,
                   statusAnswered, browser, exitCode>>

\* if [ -z "$PYTHON" ]: notify when notify-send exists, echo, exit 1
NoPython(hasNotify) ==
    /\ pc = "no-python"
    /\ notified' = hasNotify
    /\ exitCode' = 1
    /\ pc' = "exited"
    /\ UNCHANGED <<python, killedExisting, serverStarted, polls,
                   statusAnswered, browser>>

\* Check dependencies: import flask, else pip install
CheckDeps(flaskFound, pipOk, hasNotify) ==
    /\ pc = "check-deps"
    /\ IF flaskFound \/ pipOk
       THEN /\ pc' = "kill-existing"
            /\ UNCHANGED <<notified, exitCode>>
       ELSE /\ notified' = hasNotify
            /\ exitCode' = 1
            /\ pc' = "exited"
    /\ UNCHANGED <<python, killedExisting, serverStarted, polls,
                   statusAnswered, browser>>

\* Kill existing instance on same port
KillExisting(hasLsof, existingPid) ==
    /\ pc = "kill-existing"
    /\ killedExisting' = (hasLsof /\ existingPid)
    /\ pc' = "start-server"
    /\ UNCHANGED <<python, notified, serverStarted, polls, statusAnswered,
                   browser, exitCode>>

\* Start Flask server in background
StartServer ==
    /\ pc = "start-server"
    /\ serverStarted' = TRUE
    /\ pc' = "wait"
    /\ UNCHANGED <<python, notified, killedExisting, polls, statusAnswered,
                   browser, exitCode>>

\* a launcher that does not wait
WaitOverAtOnce(answered, made) == TRUE

\* what ends the wait loop: the break, or the end of seq 1 20
WaitOver(answered, made) == answered \/ made >= MaxPolls

\* Wait for server to start: one iteration of for i in $(seq 1 20)
PollStatus(curlOk) ==
    /\ pc = "wait"
    /\ polls < MaxPolls
    /\ polls' = polls + 1
    /\ statusAnswered' = curlOk
    /\ pc' = IF WaitOver(curlOk, polls') THEN "open-browser" ELSE "wait"
    /\ UNCHANGED <<python, notified, killedExisting, serverStarted, browser,
                   exitCode>>

\* Open browser: the first of the six commands that exists
OpenBrowser(found) ==
    /\ pc = "open-browser"
    /\ browser' = FirstFound(BrowserCommands, found)
    /\ pc' = "running"
    /\ UNCHANGED <<python, notified, killedExisting, serverStarted, polls,
                   statusAnswered, exitCode>>

\* wait $SERVER_PID returns when the server process ends
ServerExits(status) ==
    /\ pc = "running"
    /\ exitCode' = status
    /\ pc' = "exited"
    /\ UNCHANGED <<python, notified, killedExisting, serverStarted, polls,
                   statusAnswered, browser>>

(***************************************************************************)
(* The server-side cache (spec sections 3, 4.1, 5): get/set with a TTL,    *)
(* cache-or-fetch per request, one population of a key at a time, stale    *)
(* fallback when the live fetch fails.                                     *)
(***************************************************************************)
VARIABLES
    cache,      \* key -> entry
    now,        \* the clock, in seconds
    reqs,       \* the HTTP requests being served, per worker
    upstream,   \* key -> upstream fetches in flight
    out,        \* the response sent last, and when
    lastWrite   \* key -> the value and time of the last completed set

cacheVars == <<cache, now, reqs, upstream, out, lastWrite>>

\* concurrent requests the server handles
MaxRequests == 2
\* seconds per clock step, and the last clock value
ClockStep == 150
MaxTime == 600
\* WM_CACHE_TTL
CacheTTL == 300

CacheKeys == {"news", "earthquakes"}
Payloads == {"v1", "v2"}
NoValue == ""

NoEntry == [present |-> FALSE, value |-> NoValue, stored_at |-> 0, ttl |-> 0]

\* a variant that still serves an entry exactly TTL old
CacheValidAtTtl(e, t) == e.present /\ t - e.stored_at <= e.ttl

\* an entry is valid iff now - stored_at < TTL
CacheValid(e, t) == e.present /\ t - e.stored_at < e.ttl

\* get(key) -> value or absent
CacheGet(c, k, t) ==
    IF CacheValid(c[k], t) THEN [hit |-> TRUE, value |-> c[k].value]
    ELSE [hit |-> FALSE, value |-> NoValue]

\* set(key, value, ttl): the entry is replaced as a whole
CacheSet(c, k, v, t, ttl) ==
    [c EXCEPT ![k] = [present |-> TRUE, value |-> v, stored_at |-> t, ttl |-> ttl]]

\* a variant in which every miss fetches
FlightUnderWayNever(inFlight) == FALSE

\* single-flight: a miss joins the population of the key that is under way
FlightUnderWay(inFlight) == inFlight > 0

Idle == [pc |-> "idle", key |-> ""]

CacheInit ==
    /\ cache = [k \in CacheKeys |-> NoEntry]
    /\ now = 0
    /\ reqs = [r \in 1..MaxRequests |-> Idle]
    /\ upstream = [k \in CacheKeys |-> 0]
    /\ out = [kind |-> "none", key |-> "", value |-> NoValue, at |-> 0]
    /\ lastWrite = [k \in CacheKeys |-> <<NoValue, 0>>]

\* a request for key k arrives at worker r: hit, join, or fetch
Request(r, k) ==
    /\ reqs[r].pc = "idle"
    /\ LET g == CacheGet(cache, k, now)
       IN IF g.hit
          THEN /\ out' = [kind |-> "hit", key |-> k, value |-> g.value, at |-> now]
               /\ UNCHANGED <<reqs, upstream>>
          ELSE IF FlightUnderWay(upstream[k])
          THEN /\ reqs' = [reqs EXCEPT ![r] = [pc |-> "waiting", key |-> k]]
               /\ UNCHANGED <<out, upstream>>
          ELSE /\ reqs' = [reqs EXCEPT ![r] = [pc |-> "fetching", key |-> k]]
               /\ upstream' = [upstream EXCEPT ![k] = @ + 1]
               /\ UNCHANGED out
    /\ UNCHANGED <<cache, now, lastWrite>>

\* the live fetch of worker r returns: the result is stored and answers r
\* and every request that joined; a failed fetch answers with the stale
\* value when there is one, else with an empty result
FetchReturns(r, ok, v) ==
    /\ reqs[r].pc = "fetching"
    /\ LET k == reqs[r].key
       IN /\ IF ok
             THEN /\ cache' = CacheSet(cache, k, v, now, CacheTTL)
                  /\ lastWrite' = [lastWrite EXCEPT ![k] = <<v, now>>]
                  /\ out' = [kind |-> "fetched", key |-> k, value |-> v, at |-> now]
             ELSE /\ UNCHANGED <<cache, lastWrite>>
                  /\ out' = IF cache[k].present
                            THEN [kind |-> "stale", key |-> k, value |-> cache[k].value,
                                  at |-> now]
                            ELSE [kind |-> "empty", key |-> k, value |-> NoValue, at |-> now]
          /\ upstream' = [upstream EXCEPT ![k] = @ - 1]
          /\ reqs' = [x \in 1..MaxRequests |->
                        IF x = r \/ (reqs[x].pc = "waiting" /\ reqs[x].key = k)
                        THEN Idle ELSE reqs[x]]
    /\ UNCHANGED now

ClockTick ==
    /\ now < MaxTime
    /\ now' = now + ClockStep
    /\ UNCHANGED <<cache, reqs, upstream, out, lastWrite>>

(***************************************************************************)
(* Specifications.  Every specification starts from the state after        *)
(* construction; each one lets a part of the environment act.              *)
(***************************************************************************)
vars == <<dashVars, launchVars, cacheVars>>

Init == DashInit /\ LaunchInit /\ CacheInit

\* the fetches of the refresh cycles have all settled, news aside
PageLoaded == \A i \in 1..Len(cycles) : cycles[i].pending \subseteq {"news"}

NoLayerRequest == \A n \in LayerNames : layerInFlight[n] = 0

(***************************************************************************)
(* Spec: the refresh cycle.  Timer ticks, the refresh button, and every    *)
(* response of a cycle, failures included, in any order.                   *)
(***************************************************************************)
Next ==
    \/ TimerTick /\ UNCHANGED <<launchVars, cacheVars>>
    \/ ClickRefresh /\ UNCHANGED <<launchVars, cacheVars>>
    \/ /\ \E k \in 1..Len(newsInFlight) :
            \E r \in NewsResponses(CycleFeeds, newsInFlight[k].url) : NewsSettled(k, r)
       /\ UNCHANGED <<launchVars, cacheVars>>
    \/ /\ \E i \in 1..Len(cycles) : \E r \in EarthquakeResponses : EarthquakesSettled(i, r)
       /\ UNCHANGED <<launchVars, cacheVars>>
    \/ /\ \E i \in 1..Len(cycles) : \E r \in ZoneResponses : ConflictZonesSettled(i, r)
       /\ UNCHANGED <<launchVars, cacheVars>>
    \/ /\ \E i \in 1..Len(cycles) : \E r \in HotspotResponses : HotspotsSettled(i, r)
       /\ UNCHANGED <<launchVars, cacheVars>>
    \/ /\ \E i \in 1..Len(cycles) : \E r \in GdeltResponses : GdeltSettled(i, r)
       /\ UNCHANGED <<launchVars, cacheVars>>
    \/ /\ \E i \in 1..Len(cycles) : \E r \in StatResponses : ConflictsStatSettled(i, r)
       /\ UNCHANGED <<launchVars, cacheVars>>
    \/ /\ \E i \in 1..Len(cycles) : \E r \in StatResponses : DisastersStatSettled(i, r)
       /\ UNCHANGED <<launchVars, cacheVars>>

Spec == Init /\ [][Next]_vars

(***************************************************************************)
(* The first refresh cycle with every endpoint but /api/news answering     *)
(* its data.                                                               *)
(***************************************************************************)
FirstLoad ==
    \/ \E i \in 1..Len(cycles) : EarthquakesSettled(i, Ok(<<PlaceRec>>))
    \/ \E i \in 1..Len(cycles) : ConflictZonesSettled(i, Ok(<<PlaceRec>>))
    \/ \E i \in 1..Len(cycles) : HotspotsSettled(i, Ok(<<PlaceRec>>))
    \/ \E i \in 1..Len(cycles) : GdeltSettled(i, Ok(<<GdeltItem>>))
    \/ \E i \in 1..Len(cycles) : ConflictsStatSettled(i, Ok(<<PlaceRec>>))
    \/ \E i \in 1..Len(cycles) : DisastersStatSettled(i, Ok(<<PlaceRec>>))

(***************************************************************************)
(* SpecNews: the news panel.  The page loads, then the user works the      *)
(* alerts button and the source filter while /api/news responses, of any   *)
(* feed content or failed, arrive in any order; the timer fires when       *)
(* nothing is in flight.                                                   *)
(***************************************************************************)
NextNews ==
    \/ FirstLoad /\ UNCHANGED <<launchVars, cacheVars>>
    \/ /\ \E k \in 1..Len(newsInFlight) :
            \E r \in NewsResponses(Feeds, newsInFlight[k].url) : NewsSettled(k, r)
       /\ UNCHANGED <<launchVars, cacheVars>>
    \/ /\ cycles = <<>> /\ newsInFlight = <<>>
       /\ TimerTick
       /\ UNCHANGED <<launchVars, cacheVars>>
    \/ PageLoaded /\ ClickAlerts /\ UNCHANGED <<launchVars, cacheVars>>
    \/ /\ PageLoaded
       /\ \E v \in Range(sourceOptions) : ChangeSource(v)
       /\ UNCHANGED <<launchVars, cacheVars>>

SpecNews == Init /\ [][NextNews]_vars

(***************************************************************************)
(* SpecMap: the layer checkboxes.  The user toggles the earthquakes layer  *)
(* at any time and the other layers once the page has loaded; layer data   *)
(* of any coordinates, or a failure, arrives.                              *)
(***************************************************************************)
ToggledLayers == {"disasters", "conflict-events", "earthquakes"}

NextMap ==
    \/ FirstLoad /\ UNCHANGED <<launchVars, cacheVars>>
    \/ /\ \E k \in 1..Len(newsInFlight) : NewsSettled(k, Ok(<<ItemB>>))
       /\ UNCHANGED <<launchVars, cacheVars>>
    \/ /\ \E n \in ToggledLayers :
            /\ cycles = <<>> \/ n = "earthquakes"
            /\ ToggleLayer(n)
       /\ UNCHANGED <<launchVars, cacheVars>>
    \/ /\ \E n \in ToggledLayers : \E r \in EventResponses : LayerDataSettled(n, r)
       /\ UNCHANGED <<launchVars, cacheVars>>

SpecMap == Init /\ [][NextMap]_vars

(***************************************************************************)
(* SpecLayers: layers and refresh cycles together.  Cycles and layer       *)
(* requests do not overlap; /api/disasters and /api/conflicts answer one   *)
(* of two lists.                                                           *)
(***************************************************************************)
TwoLists == {Ok(<<PlaceRec>>), Ok(<<PlaceRec, PlaceRec>>)}

NextLayers ==
    \/ FirstLoad /\ UNCHANGED <<launchVars, cacheVars>>
    \/ /\ \E i \in 1..Len(cycles) : \E r \in TwoLists : ConflictsStatSettled(i, r)
       /\ UNCHANGED <<launchVars, cacheVars>>
    \/ /\ \E i \in 1..Len(cycles) : \E r \in TwoLists : DisastersStatSettled(i, r)
       /\ UNCHANGED <<launchVars, cacheVars>>
    \/ /\ \E k \in 1..Len(newsInFlight) : NewsSettled(k, Ok(<<ItemB>>))
       /\ UNCHANGED <<launchVars, cacheVars>>
    \/ NoLayerRequest /\ TimerTick /\ UNCHANGED <<launchVars, cacheVars>>
    \/ /\ cycles = <<>>
       /\ \E n \in {"disasters", "conflict-events"} : ToggleLayer(n)
       /\ UNCHANGED <<launchVars, cacheVars>>
    \/ /\ \E n \in {"disasters", "conflict-events"} : \E r \in TwoLists : LayerDataSettled(n, r)
       /\ UNCHANGED <<launchVars, cacheVars>>

SpecLayers == Init /\ [][NextLayers]_vars

(***************************************************************************)
(* SpecOverlap: refresh cycles that overlap.  The refresh button is        *)
(* clicked, or the timer fires, while an earlier cycle still has fetches   *)
(* in flight; every endpoint answers its data.                             *)
(***************************************************************************)
NextOverlap ==
    \/ LoadAllData(MaxCycles + 1) /\ UNCHANGED <<launchVars, cacheVars>>
    \/ FirstLoad /\ UNCHANGED <<launchVars, cacheVars>>
    \/ /\ \E k \in 1..Len(newsInFlight) : NewsSettled(k, Ok(<<ItemB>>))
       /\ UNCHANGED <<launchVars, cacheVars>>

SpecOverlap == Init /\ [][NextOverlap]_vars

(***************************************************************************)
(* SpecLaunch: one run of the launcher.  SpecCache: the cache under        *)
(* concurrent requests.                                                    *)
(***************************************************************************)
NextLaunch ==
    \/ /\ \E found \in SUBSET Range(PythonCommands) : CheckPython(found)
       /\ UNCHANGED <<dashVars, cacheVars>>
    \/ /\ \E n \in BOOLEAN : NoPython(n)
       /\ UNCHANGED <<dashVars, cacheVars>>
    \/ /\ \E f \in BOOLEAN, p \in BOOLEAN, n \in BOOLEAN : CheckDeps(f, p, n)
       /\ UNCHANGED <<dashVars, cacheVars>>
    \/ /\ \E l \in BOOLEAN, e \in BOOLEAN : KillExisting(l, e)
       /\ UNCHANGED <<dashVars, cacheVars>>
    \/ StartServer /\ UNCHANGED <<dashVars, cacheVars>>
    \/ /\ \E ok \in BOOLEAN : PollStatus(ok)
       /\ UNCHANGED <<dashVars, cacheVars>>
    \/ /\ \E found \in SUBSET Range(BrowserCommands) : OpenBrowser(found)
       /\ UNCHANGED <<dashVars, cacheVars>>
    \/ /\ \E status \in {0, 1} : ServerExits(status)
       /\ UNCHANGED <<dashVars, cacheVars>>

SpecLaunch == Init /\ [][NextLaunch]_vars

NextCache ==
    \/ /\ \E r \in 1..MaxRequests, k \in CacheKeys : Request(r, k)
       /\ UNCHANGED <<dashVars, launchVars>>
    \/ /\ \E r \in 1..MaxRequests, ok \in BOOLEAN, v \in Payloads : FetchReturns(r, ok, v)
       /\ UNCHANGED <<dashVars, launchVars>>
    \/ ClockTick /\ UNCHANGED <<dashVars, launchVars>>

SpecCache == Init /\ [][NextCache]_vars

(***************************************************************************)
(* Claims about the refresh cycle.                                         *)
(***************************************************************************)
Shown(e) == delivered[e].data

\* C1: within a refresh cycle a failed fetch only affects its own panel.
\* The news list reads "Failed to load news" exactly when the latest
\* /api/news response was a failure, the GDELT list reads "Failed to load
\* GDELT data" exactly when the latest /api/gdelt response was a failure,
\* and every endpoint that has delivered data shows its latest data: the
\* news, alerts and GDELT lists, the earthquake, conflict-zone and hotspot
\* layers and the counters, whatever the other endpoints answered.
C1_FailureStaysInItsPanel ==
    /\ newsList = IF "news" \in lastFailed THEN Panel("Failed to load news", <<>>)
                  ELSE IF delivered["news"].any THEN renderNews(Shown("news"))
                  ELSE PanelInitial
    /\ gdeltList = IF "gdelt" \in lastFailed THEN Panel("Failed to load GDELT data", <<>>)
                   ELSE IF delivered["gdelt"].any THEN renderGdelt(Shown("gdelt"))
                   ELSE PanelInitial
    /\ delivered["news"].any =>
         /\ alertsList = renderAlerts(AlertsOf(Shown("news")))
         /\ ticker = renderTicker(Shown("news"))
         /\ statNews = Len(Shown("news"))
    /\ delivered["earthquakes"].any =>
         /\ layerGroups["earthquakes"] = updateEarthquakes(Shown("earthquakes"))
         /\ statEarthquakes = Len(Shown("earthquakes"))
    /\ delivered["conflict-zones"].any =>
         layerGroups["conflicts"] = updateConflictZones(Shown("conflict-zones"))
    /\ delivered["hotspots"].any =>
         layerGroups["hotspots"] = updateHotspots(Shown("hotspots"))
    /\ delivered["conflicts"].any => statConflicts = Len(Shown("conflicts"))
    /\ delivered["disasters"].any => statDisasters = Len(Shown("disasters"))

\* C1 witness: the first refresh cycle has completed with the GDELT and
\* conflicts fetches failed and the news and earthquake responses rendered.
C1_Witness ==
    /\ cycles = <<>>
    /\ "gdelt" \in lastFailed /\ ~delivered["gdelt"].any
    /\ statConflicts = NoStat
    /\ "news" \notin lastFailed /\ newsList.items # <<>>
    /\ layerGroups["earthquakes"] # <<>>

\* the requests of a cycle that are not the news request
PlainRequests(c) == {u \in c.requested : u[1] # UrlNewsBase}
NewsRequests(c) == {u \in c.requested : u[1] = UrlNewsBase}

\* C2 as stated: every loadAllData call (at init, on every timer tick of
\* REFRESH_INTERVAL = 180000 ms) requests every data and layer endpoint of
\* the API, the six /api/layers/* endpoints included.
C2_PollsEveryEndpoint ==
    /\ refreshTimer = 180000
    /\ \A i \in 1..Len(cycles) :
         /\ NewsRequests(cycles[i]) # {}
         /\ ApiDataPaths \subseteq PlainRequests(cycles[i])

\* C2 as amended: every loadAllData call requests /api/news, earthquakes,
\* gdelt, conflicts, disasters, layers/conflict-zones and layers/hotspots,
\* and nothing else; military-bases, nuclear, waterways and cables are not
\* polled.
C2_PollsSevenEndpoints ==
    /\ refreshTimer = 180000
    /\ \A i \in 1..Len(cycles) :
         /\ Cardinality(NewsRequests(cycles[i])) = 1
         /\ \A u \in NewsRequests(cycles[i]) : ParseNewsUrl(u).wellFormed
         /\ PlainRequests(cycles[i]) =
              {UrlEarthquakes, UrlGdelt, UrlConflicts, UrlDisasters,
               UrlConflictZones, UrlHotspots}
         /\ cycles[i].pending \subseteq Endpoints

\* C2 witness: a refresh that was started after an earlier one completed
\* has all its requests in flight.
C2_Witness ==
    /\ dotConnected
    /\ Len(cycles) = 1
    /\ cycles[1].pending = Endpoints
    /\ Len(newsInFlight) = 1

(***************************************************************************)
(* C10, as stated: whenever the launcher has opened the browser, it had    *)
(* started the server process and the server had answered a status         *)
(* request.                                                                *)
(***************************************************************************)
C10_BrowserAfterStatusAnswer ==
    browser # "" => serverStarted /\ statusAnswered

(***************************************************************************)
(* C10, amended: whenever the launcher has opened the browser, it had      *)
(* started the server process and the wait loop was over: a status         *)
(* request was answered, or all 20 of them went unanswered.                *)
(***************************************************************************)
C10_BrowserAfterWaitLoop ==
    /\ browser # "" => serverStarted /\ (statusAnswered \/ polls = MaxPolls)
    /\ pc \in {"open-browser", "running"} =>
         serverStarted /\ (statusAnswered \/ polls = MaxPolls)

\* the browser is open although no status request was ever answered
C10_Witness ==
    /\ browser # ""
    /\ serverStarted
    /\ ~statusAnswered
    /\ polls = MaxPolls

(***************************************************************************)
(* C8: a request for a key whose entry is younger than its TTL is a hit    *)
(* that returns the stored value and starts no fetch; a request for a key  *)
(* whose entry has reached its TTL is never a hit.                         *)
(***************************************************************************)
C8_FreshServedExpiredAbsent ==
    [][ /\ (out' # out /\ out'.kind = "hit") =>
             /\ cache[out'.key].present
             /\ now - cache[out'.key].stored_at < cache[out'.key].ttl
             /\ out'.value = cache[out'.key].value
             /\ upstream' = upstream
             /\ reqs' = reqs
        /\ \A k \in CacheKeys :
             (cache[k].present /\ now - cache[k].stored_at < cache[k].ttl) =>
                /\ upstream'[k] <= upstream[k]
                /\ \A r \in 1..MaxRequests :
                     reqs[r].pc = "idle" =>
                        ~(reqs'[r].pc # "idle" /\ reqs'[r].key = k)
      ]_vars

\* a hit on a fresh entry while an entry exactly TTL old is being refetched
C8_Witness ==
    /\ out.kind = "hit"
    /\ out.at = now
    /\ \E k \in CacheKeys :
         /\ k # out.key
         /\ cache[k].present
         /\ now - cache[k].stored_at = cache[k].ttl
         /\ \E r \in 1..MaxRequests : reqs[r] = [pc |-> "fetching", key |-> k]

(***************************************************************************)
(* C9: a key has at most one upstream fetch in flight however many         *)
(* requests miss on it, every request that missed is behind that one       *)
(* fetch, and an entry a reader can see is the whole of the last set():    *)
(* its value, its stored-at time and its TTL.                              *)
(***************************************************************************)
C9_SingleFlightWholeEntries ==
    \A k \in CacheKeys :
        /\ upstream[k] <= 1
        /\ upstream[k] = Cardinality({r \in 1..MaxRequests :
                                         reqs[r] = [pc |-> "fetching", key |-> k]})
        /\ (\E r \in 1..MaxRequests : reqs[r].pc # "idle" /\ reqs[r].key = k)
              => upstream[k] = 1
        /\ cache[k].present =>
              /\ <<cache[k].value, cache[k].stored_at>> = lastWrite[k]
              /\ cache[k].ttl = CacheTTL

\* two concurrent requests missed on an expired entry: one fetch
C9_Witness ==
    \E k \in CacheKeys :
        /\ cache[k].present
        /\ now - cache[k].stored_at >= cache[k].ttl
        /\ lastWrite[k][2] > 0
        /\ upstream[k] = 1
        /\ \E r1, r2 \in 1..MaxRequests :
             /\ reqs[r1] = [pc |-> "fetching", key |-> k]
             /\ reqs[r2] = [pc |-> "waiting", key |-> k]

(***************************************************************************)
(* Claims about the news panel.                                            *)
(***************************************************************************)
LastNewsRequest == newsInFlight'[Len(newsInFlight')]

(***************************************************************************)
(* C5: every step that issues a news request issues one of the form        *)
(* /api/news?limit=200[&source=S][&alerts=true] in which the server reads  *)
(* the source parameter as the selection of the source filter (absent iff  *)
(* the selection is empty) and alerts=true iff alertsOnly is set; a click  *)
(* on the alerts button flips alertsOnly and issues exactly one request,   *)
(* with the new flag value.                                                *)
(***************************************************************************)
C5_NewsRequestForm ==
    [][ /\ Len(newsInFlight') > Len(newsInFlight) =>
             /\ Len(newsInFlight') = Len(newsInFlight) + 1
             /\ SubSeq(newsInFlight', 1, Len(newsInFlight)) = newsInFlight
             /\ LET q == ParseNewsUrl(LastNewsRequest.url)
                IN /\ q.wellFormed
                   /\ q.source = sourceSel'
                   /\ (LastNewsRequest.url[Len(LastNewsRequest.url)] = "&alerts=true")
                         <=> alertsOnly'
                   /\ (Len(LastNewsRequest.url) >= 2
                         /\ LastNewsRequest.url[2] = "&source=")
                         <=> sourceSel' # EmptyStr
                   /\ q.alerts = alertsOnly'
        /\ btnAlertsActive' # btnAlertsActive =>
             /\ alertsOnly' = ~alertsOnly
             /\ Len(newsInFlight') = Len(newsInFlight) + 1
             /\ ParseNewsUrl(LastNewsRequest.url).alerts = alertsOnly'
             /\ ~LastNewsRequest.inCycle
      ]_vars

\* the alerts button was clicked with the source "B &C" selected
C5_Witness ==
    /\ alertsOnly /\ btnAlertsActive
    /\ sourceSel = SrcBC
    /\ \E k \in 1..Len(newsInFlight) :
         newsInFlight[k] =
            [url |-> <<"/api/news?limit=200", "&source=", "B", "%20", "%26", "C",
                       "&alerts=true">>,
             inCycle |-> FALSE]

(***************************************************************************)
(* C6: the alerts panel holds exactly the items of the latest /api/news    *)
(* response whose is_alert is true, in response order, and the news panel  *)
(* marks an item as an alert iff its is_alert is true.                     *)
(***************************************************************************)
C6_AlertsAsServed ==
    delivered["news"].any =>
        LET d == delivered["news"].data
            al == SelectSeq(d, IsAlert)
        IN /\ Len(alertsList.items) = Len(al)
           /\ \A i \in 1..Len(al) :
                /\ alertsList.items[i].title = al[i].title
                /\ alertsList.items[i].time = al[i].published
                /\ alertsList.items[i].cls = "news-item alert"
           /\ "news" \notin lastFailed =>
                /\ Len(newsList.items) = Min(Len(d), 100)
                /\ \A i \in 1..Len(newsList.items) :
                     /\ newsList.items[i].title = d[i].title
                     /\ (newsList.items[i].cls = "news-item alert") <=> d[i].is_alert
                     /\ (newsList.items[i].cls = "news-item ") <=> ~d[i].is_alert

\* a response of 101 items whose only alert is the last one is on display
C6_Witness ==
    /\ delivered["news"].any
    /\ Len(delivered["news"].data) = 101
    /\ Len(newsList.items) = 100
    /\ Len(alertsList.items) = 1
    /\ alertsList.items[1].title = "z"
    /\ \A i \in 1..Len(newsList.items) : newsList.items[i].cls = "news-item "

HasBothCoordinates(m) == ~Falsy(m.of.lat) /\ ~Falsy(m.of.lng)

(***************************************************************************)
(* C3: no marker of the disasters layer or of the conflict-events layer    *)
(* stands for a record whose latitude or longitude is zero or absent.      *)
(***************************************************************************)
C3_NoMarkerWithoutCoordinates ==
    /\ \A i \in 1..Len(layerGroups["disasters"]) :
         HasBothCoordinates(layerGroups["disasters"][i])
    /\ \A c \in 1..Len(layerGroups["conflict-events"]) :
         \A i \in 1..Len(layerGroups["conflict-events"][c].markers) :
            HasBothCoordinates(layerGroups["conflict-events"][c].markers[i])

(***************************************************************************)
(* C4: once a refresh cycle has completed and no layer request is under    *)
(* way, a disasters or conflict-events layer that is on the map shows the  *)
(* data of the latest /api/disasters, /api/conflicts response.             *)
(***************************************************************************)
C4_LayersShowLatestResponses ==
    (cycles = <<>> /\ NoLayerRequest) =>
        /\ ("disasters" \in onMap /\ delivered["disasters"].any) =>
              layerGroups["disasters"] = updateDisasters(delivered["disasters"].data)
        /\ ("conflict-events" \in onMap /\ delivered["conflicts"].any) =>
              layerGroups["conflict-events"] =
                 updateConflictEvents(delivered["conflicts"].data)

(***************************************************************************)
(* Claims about the launcher's failure exits.                              *)
(***************************************************************************)
NothingLaunched == ~killedExisting /\ ~serverStarted /\ browser = ""

(***************************************************************************)
(* C11: a run in which neither python3 nor python is found, or in which    *)
(* flask is missing and the pip install fails, exits with status 1; up to  *)
(* then it has killed no existing instance, started no server and opened   *)
(* no browser, and after the exit it does nothing more.                    *)
(***************************************************************************)
C11_FailedChecksExitOne ==
    [][ /\ CheckPython({}) => pc' = "no-python" /\ python' = ""
        /\ (\E n \in BOOLEAN : NoPython(n)) =>
              pc' = "exited" /\ exitCode' = 1 /\ NothingLaunched'
        /\ (\E n \in BOOLEAN : CheckDeps(FALSE, FALSE, n)) =>
              pc' = "exited" /\ exitCode' = 1 /\ NothingLaunched'
        /\ pc = "no-python" => pc' = "exited"
        /\ pc = "exited" => UNCHANGED launchVars
      ]_vars

\* the dependency installation failed: the run is over with status 1
C11_Witness ==
    /\ pc = "exited"
    /\ python = "python3"
    /\ exitCode = 1
    /\ notified
    /\ NothingLaunched

(***************************************************************************)
(* Claims about the layer checkboxes.                                      *)
(***************************************************************************)
JustChecked(n) == n \notin checked /\ n \in checked'
JustUnchecked(n) == n \in checked /\ n \notin checked'
RequestIssuedFor(n) == layerInFlight'[n] = layerInFlight[n] + 1
NoRequestIssued ==
    /\ layerInFlight' = layerInFlight
    /\ cycles' = cycles
    /\ newsInFlight' = newsInFlight

CycleCompleted == Len(cycles') < Len(cycles)

(***************************************************************************)
(* C13: no step sets the status to 'Error', and the step in which the      *)
(* last loader of a loadAllData call settles sets the status to 'Live'     *)
(* and the dot to connected, however many of the fetches failed.           *)
(***************************************************************************)
C13_FailuresNeverError ==
    [][ /\ statusText' \in {"Refreshing...", "Live"}
        /\ CycleCompleted => statusText' = "Live" /\ dotConnected'
        /\ statusText' = "Refreshing..." => cycles' # <<>>
      ]_vars

\* every fetch of the cycle failed and the status is 'Live'
C13_Witness ==
    /\ statusText = "Live"
    /\ cycles = <<>>
    /\ lastFailed = {"news", "gdelt"}
    /\ \A e \in Endpoints : ~delivered[e].any
    /\ statEarthquakes = NoStat /\ statConflicts = NoStat /\ statDisasters = NoStat

(***************************************************************************)
(* C15: the status text is 'Live' only when no refresh cycle is in         *)
(* flight; while some loadAllData call has unsettled loaders the status    *)
(* is 'Refreshing...'.                                                     *)
(***************************************************************************)
C15_LiveOnlyWhenIdle ==
    /\ statusText = "Live" => cycles = <<>>
    /\ cycles # <<>> => statusText = "Refreshing..."

(***************************************************************************)
(* C14: whenever no /api/news request is in flight and the latest          *)
(* response was rendered, the news panel is consistent with the current    *)
(* alertsOnly flag and source selection: with alertsOnly set it shows      *)
(* alert items only, with a source selected it shows items of that source  *)
(* only.                                                                   *)
(***************************************************************************)
C14_NewsPanelMatchesControls ==
    (newsInFlight = <<>> /\ delivered["news"].any /\ "news" \notin lastFailed) =>
        /\ alertsOnly =>
             \A i \in 1..Len(newsList.items) : newsList.items[i].cls = "news-item alert"
        /\ alertsOnly =>
             \A i \in 1..Len(ticker) : ticker[i].cls = "ticker-alert"
        /\ sourceSel # EmptyStr =>
             \A i \in 1..Len(newsList.items) :
                newsList.items[i].source = escapeHtml(sourceSel)

(***************************************************************************)
(* C16: rendering a news response leaves the selection of the source       *)
(* filter as it was: the step in which a /api/news request settles does    *)
(* not change the select's value.                                          *)
(***************************************************************************)
C16_SelectionKeptAcrossResponses ==
    [][ Len(newsInFlight') < Len(newsInFlight) => sourceSel' = sourceSel ]_vars

====
